---- MODULE Spec2Model ----
(***************************************************************************)
(* Model of investpy/certificates.py: get_certificate_recent_data and      *)
(* get_certificate_historical_data (argument validation, date-range        *)
(* partitioning, catalog name resolution, the per-window request loop and  *)
(* the assembly of the returned series).                                   *)
(*                                                                         *)
(* Values.  A str is a sequence of one-character strings; a datetime is    *)
(* <<year, month, day>>; a formatted date is the triple of its numeric     *)
(* fields in the order of the format; a price is a natural number.  An     *)
(* argument is a record whose field t is the Python type of the value.     *)
(***************************************************************************)
EXTENDS Integers, Sequences, FiniteSets, TLC

(* ------------------------------ bounds -------------------------------- *)
\* from_date years are FirstYear .. FirstYear + FromYears,
\* to_date years are FirstYear .. FirstYear + ToYears.
FirstYear == 2080
FromYears == 4
ToYears == 42
\* longest certificate name the caller passes, longest catalog, most rows
\* in one provider response
MaxNameLen == 2
MaxCatalog == 2
MaxRows == 2

(* --------------------------- str operations --------------------------- *)
\* str.lower(), one character
LowerChar(c) ==
    CASE c = "E" -> "e"
      [] c = "E_acute" -> "e_acute"
      [] c = "X" -> "x"
      [] OTHER -> c

\* unidecode.unidecode(), one character: the diacritic is dropped, the case kept
UnidecodeChar(c) ==
    CASE c = "e_acute" -> "e"
      [] c = "E_acute" -> "E"
      [] OTHER -> c

lower(s) == [i \in 1..Len(s) |-> LowerChar(s[i])]

unidecode(s) == [i \in 1..Len(s) |-> UnidecodeChar(s[i])]

RECURSIVE lstrip(_)
lstrip(s) == IF s # <<>> /\ Head(s) = "sp" THEN lstrip(Tail(s)) ELSE s

RECURSIVE rstrip(_)
rstrip(s) ==
    IF s # <<>> /\ s[Len(s)] = "sp" THEN rstrip(SubSeq(s, 1, Len(s) - 1)) ELSE s

\* str.strip()
strip(s) == rstrip(lstrip(s))

\* str.replace(',', '')
RECURSIVE replace_comma(_)
replace_comma(s) ==
    IF s = <<>> THEN <<>>
    ELSE IF Head(s) = "," THEN replace_comma(Tail(s))
    ELSE <<Head(s)>> \o replace_comma(Tail(s))

DigitValue ==
    "0" :> 0 @@ "1" :> 1 @@ "2" :> 2 @@ "3" :> 3 @@ "4" :> 4 @@
    "5" :> 5 @@ "6" :> 6 @@ "7" :> 7 @@ "8" :> 8 @@ "9" :> 9

\* float() of a string of digits
RECURSIVE float(_)
float(s) ==
    IF s = <<>> THEN 0
    ELSE 10 * float(SubSeq(s, 1, Len(s) - 1)) + DigitValue[s[Len(s)]]

reversed(s) == [i \in 1..Len(s) |-> s[Len(s) + 1 - i]]

RECURSIVE concat(_)
concat(frames) ==
    IF frames = <<>> THEN <<>> ELSE Head(frames) \o concat(Tail(frames))

(* -------------------------- date operations --------------------------- *)
IsLeap(y) == (y % 4 = 0 /\ y % 100 # 0) \/ y % 400 = 0

DaysInMonth(y, m) ==
    CASE m \in {4, 6, 9, 11} -> 30
      [] m = 2 -> IF IsLeap(y) THEN 29 ELSE 28
      [] OTHER -> 31

\* a datetime value <<y, m, d>> exists
ValidDate(dt) ==
    /\ dt[1] \in 1..9999
    /\ dt[2] \in 1..12
    /\ dt[3] \in 1..DaysInMonth(dt[1], dt[2])

\* datetime.strptime(s, '%d/%m/%Y'): s is an argument record; pattern tells
\* whether the text has the shape dd/mm/yyyy, f are its three numbers
strptime_ok(s) == s.pattern /\ ValidDate(<<s.f[3], s.f[2], s.f[1]>>)

strptime(s) == <<s.f[3], s.f[2], s.f[1]>>

\* strftime('%m/%d/%Y') and strftime('%d/%m/%Y')
strftime_mdY(dt) == <<dt[2], dt[3], dt[1]>>

strftime_dmY(dt) == <<dt[3], dt[2], dt[1]>>

\* datetime comparison
DateLess(a, b) ==
    \/ a[1] < b[1]
    \/ a[1] = b[1] /\ a[2] < b[2]
    \/ a[1] = b[1] /\ a[2] = b[2] /\ a[3] < b[3]

\* int() of a string of digits that counts seconds, kept exact as
\* <<days, seconds of the day>>: the count itself exceeds 32 bits
RECURSIVE int_seconds(_)
int_seconds(s) ==
    IF s = <<>> THEN <<0, 0>>
    ELSE LET p == int_seconds(SubSeq(s, 1, Len(s) - 1))
             r == 10 * p[2] + DigitValue[s[Len(s)]]
         IN <<10 * p[1] + r \div 86400, r % 86400>>

\* datetime.fromtimestamp(ts).date(): the civil date of a count of seconds
\* since 1970-01-01 (host clock on UTC); ts is <<days, seconds of the day>>
fromtimestamp(ts) ==
    LET z == ts[1] + 719468
        era == z \div 146097
        doe == z - era * 146097
        yoe == (doe - doe \div 1460 + doe \div 36524 - doe \div 146096) \div 365
        doy == doe - (365 * yoe + yoe \div 4 - yoe \div 100)
        mp == (5 * doy + 2) \div 153
        d == doy - (153 * mp + 2) \div 5 + 1
        m == IF mp < 10 THEN mp + 3 ELSE mp - 9
        y == yoe + era * 400 + (IF m <= 2 THEN 1 ELSE 0)
    IN <<y, m, d>>

(* ------------------------- Python truth values ------------------------ *)
\* `not x` for a certificate or country argument: None and '' are falsy
Falsy(x) == x.t = "none" \/ (x.t = "str" /\ x.v = <<>>)

\* `not interval`: None and '' are falsy
FalsyInterval(x) == x.t = "none" \/ (x.t = "str" /\ x.v = "")

OrderValues == {"ascending", "asc", "descending", "desc"}

IntervalValues == {"Daily", "Weekly", "Monthly"}

(* ---------------------------- validation ------------------------------ *)
\* lines 219-244 and 412-437: the checks the two functions share; the value
\* is the exception raised, "" when every check passes
CheckArguments(a) ==
    IF Falsy(a.certificate) THEN "ValueError ERR#0100"
    ELSE IF a.certificate.t # "str" THEN "ValueError ERR#0100"
    ELSE IF a.country.t = "none" THEN "ValueError ERR#0039"
    ELSE IF a.country.t # "str" THEN "ValueError ERR#0025"
    ELSE IF a.as_json.t # "bool" THEN "ValueError ERR#0002"
    ELSE IF a.order \notin OrderValues THEN "ValueError ERR#0003"
    ELSE IF FalsyInterval(a.interval) THEN "ValueError ERR#0073"
    ELSE IF a.interval.t # "str" THEN "ValueError ERR#0073"
    ELSE IF a.interval.v \notin IntervalValues THEN "ValueError ERR#0073"
    ELSE ""

\* the date checks without the comparison of line 452
CheckDatesWithoutRange(a) ==
    IF a.from_date.t # "str" THEN "TypeError"
    ELSE IF ~strptime_ok(a.from_date) THEN "ValueError ERR#0011"
    ELSE IF a.to_date.t # "str" THEN "TypeError"
    ELSE IF ~strptime_ok(a.to_date) THEN "ValueError ERR#0012"
    ELSE ""

\* lines 439-453: the date checks of the historical function.  strptime of a
\* value that is not a str raises TypeError, which `except ValueError` lets by
CheckDates(a) ==
    IF a.from_date.t # "str" THEN "TypeError"
    ELSE IF ~strptime_ok(a.from_date) THEN "ValueError ERR#0011"
    ELSE IF a.to_date.t # "str" THEN "TypeError"
    ELSE IF ~strptime_ok(a.to_date) THEN "ValueError ERR#0012"
    ELSE IF ~DateLess(strptime(a.from_date), strptime(a.to_date))
         THEN "ValueError ERR#0032"
    ELSE ""

(* --------------------------- partitioning ----------------------------- *)
\* the comparison of line 464 written `diff >= 20`
TwentyYearsOrMore(start, end) == end[1] - start[1] >= 20

\* line 464: the loop cuts a window off when the YEAR NUMBERS differ by more
\* than 20
MoreThanTwentyYears(start, end) == end[1] - start[1] > 20

\* line 467: start_date.replace(year=start_date.year + 20)
replace_year(start) == <<start[1] + 20, start[2], start[3]>>

\* the cursor of line 472 moved to the day after the window's end
NextStartDayAfter(start) == <<start[1] + 20, start[2], start[3] + 1>>

\* line 472: where the next window starts
NextStart(start) == replace_year(start)

\* lines 465-468 and 474-477: one entry of date_interval['intervals']
IntervalObj(start, end) ==
    [start |-> strftime_mdY(start), end |-> strftime_mdY(end)]

(* ------------------------- catalog resolution ------------------------- *)
\* get_certificate_countries(): the distinct countries of the catalog, each
\* lowercased and without diacritics
get_certificate_countries(cat) ==
    {unidecode(lower(cat[i].country)) : i \in 1..Len(cat)}

\* lines 256, 498: the country is known
CountryFound(cat, country) ==
    unidecode(lower(country)) \in get_certificate_countries(cat)

\* lines 259, 501: certificates[certificates['country'] == ...], as the
\* sequence of the index labels kept, in catalog order
FilterCountry(cat, country) ==
    SelectSeq([i \in 1..Len(cat) |-> i],
              LAMBDA i : cat[i].country = unidecode(lower(country)))

\* lines 261-262, 503-504
NormalizeName(certificate) == lower(strip(certificate))

\* lines 264, 506: the name is in the filtered catalog, accents ignored
NameFound(cat, labels, certificate) ==
    \E k \in 1..Len(labels) :
        unidecode(lower(cat[labels[k]].name)) = unidecode(certificate)

\* lines 267-269, 509-511: the comparison that builds the boolean mask
MaskEntry(rowname, certificate) == lower(rowname) = certificate

\* (mask).idxmax(): the label of the first True, and the first label of all
\* when the mask holds no True
idxmax(cat, labels, certificate) ==
    LET hits == SelectSeq(labels,
                          LAMBDA i : MaskEntry(cat[i].name, certificate))
    IN IF hits # <<>> THEN hits[1] ELSE labels[1]

\* lines 246-252, 488-494: certificates.csv is not there
CatalogMissing ==
    [err |-> "FileNotFoundError ERR#0096", row |-> 0, certificate |-> <<>>]

\* lines 256-271 and 498-513 as one step: the exception raised or the row
ResolveCertificate(cat, a) ==
    LET labels == FilterCountry(cat, a.country.v)
        cert == NormalizeName(a.certificate.v)
    IN IF ~CountryFound(cat, a.country.v)
         THEN [err |-> "RuntimeError ERR#0034", row |-> 0, certificate |-> cert]
       ELSE IF ~NameFound(cat, labels, cert)
         THEN [err |-> "RuntimeError ERR#0101", row |-> 0, certificate |-> cert]
       ELSE [err |-> "", row |-> idxmax(cat, labels, cert), certificate |-> cert]

\* lines 271, 513
Header(symbol) == <<symbol, " Historical Data">>

(* --------------------------- row parsing ------------------------------ *)
NoResultsFound == "No results found"

\* lines 313-321, 571-579: the Data object of one table row; info is the
\* list of data-real-value attributes: timestamp, close, open, high, low
Data(info) ==
    [date |-> fromtimestamp(int_seconds(info[1])),
     open |-> float(replace_comma(info[3])),
     high |-> float(replace_comma(info[4])),
     low |-> float(replace_comma(info[5])),
     close |-> float(replace_comma(info[2]))]

\* Data.certificate_to_dict(): the Date is the datetime
certificate_to_dict(d) ==
    [date |-> d.date, open |-> d.open, high |-> d.high, low |-> d.low,
     close |-> d.close]

\* Data.certificate_as_json(): the date is rendered dd/mm/yyyy
certificate_as_json(d) ==
    [date |-> strftime_dmY(d.date), open |-> d.open, high |-> d.high,
     low |-> d.low, close |-> d.close]

\* the comparison of line 558 written `<=`
NotPastLastWindow(interval_counter, interval_limit) ==
    interval_counter <= interval_limit

\* line 558: the window being processed is not the last one
NotLastWindow(interval_counter, interval_limit) ==
    interval_counter < interval_limit

\* lines 556-579: the loop over the rows of one historical response
RECURSIVE ScanRows(_, _, _, _, _)
ScanRows(rows, flag, result, interval_counter, interval_limit) ==
    IF rows = <<>> THEN [err |-> "", data_flag |-> flag, result |-> result]
    ELSE IF Head(rows).td0 = NoResultsFound
      THEN IF NotLastWindow(interval_counter, interval_limit)
             THEN ScanRows(Tail(rows), FALSE, result,
                           interval_counter, interval_limit)
             ELSE [err |-> "IndexError ERR#0102", data_flag |-> flag,
                   result |-> result]
      ELSE ScanRows(Tail(rows), TRUE, Append(result, Data(Head(rows).info)),
                    interval_counter, interval_limit)

\* lines 304-321: the loop over the rows of the recent response
RECURSIVE ScanRecentRows(_, _)
ScanRecentRows(rows, result) ==
    IF rows = <<>> THEN [err |-> "", result |-> result]
    ELSE IF Head(rows).td0 = NoResultsFound
      THEN [err |-> "IndexError ERR#0102", result |-> result]
      ELSE ScanRecentRows(Tail(rows), Append(result, Data(Head(rows).info)))

\* lines 323-326, 582-585
ApplyOrder(order, result) ==
    IF order \in {"ascending", "asc"} THEN reversed(result) ELSE result

\* lines 328-340, 587-599: the object built from one window's result
Frame(as_json, name, result) ==
    IF as_json
      THEN [name |-> name,
            rows |-> [i \in 1..Len(result) |-> certificate_as_json(result[i])]]
      ELSE [name |-> <<>>,
            rows |-> [i \in 1..Len(result) |-> certificate_to_dict(result[i])]]

\* the status check accepting every code below 500
StatusBelow500(status_code) == status_code < 500

\* the frame of a window appended whatever data_flag holds
KeepFrameAlways(flag) == TRUE

\* line 581: the frame of a window is appended when data_flag is True
KeepFrame(flag) == flag

\* line 544, 295
StatusOk(status_code) == status_code = 200

\* line 605: the windows whose data the JSON result carries
JsonFrames(final) == <<final[1]>>

\* line 607: pd.concat(final)
TableFrames(final) == final

(* ------------------------------ inputs -------------------------------- *)
Strs(chars, n) == UNION {[1..k -> chars] : k \in 1..n}

Str(v) == [t |-> "str", v |-> v]

None == [t |-> "none", v |-> <<>>]

\* a value of another type (a number) where a str is expected
NotStr == [t |-> "int", v |-> <<>>]

Bool(b) == [t |-> "bool", v |-> b]

DateStr(d, m, y) == [t |-> "str", pattern |-> TRUE, f |-> <<d, m, y>>]

\* a str that does not have the shape dd/mm/yyyy, and None
BadDateStr == [t |-> "str", pattern |-> FALSE, f |-> <<0, 0, 0>>]

NoDate == [t |-> "none", pattern |-> FALSE, f |-> <<0, 0, 0>>]

InputChars == {"E", "e_acute", "sp"}

InputNames == Strs(InputChars, MaxNameLen)

InputCountries == {<<"E">>, <<"e_acute">>, <<"x">>}

CatalogCountries == {<<"e">>, <<"x">>}

CatalogNames == {<<"x">>, <<"e_acute">>, <<"E">>}

\* certificates.csv: rows of country, name, symbol, id (the other columns are
\* not read by the two functions)
Catalogs ==
    UNION {
      { [i \in 1..k |-> [country |-> c[i], name |-> n[i],
                         symbol |-> 500 + i, id |-> 100 + i]] :
          c \in [1..k -> CatalogCountries], n \in [1..k -> CatalogNames] } :
      k \in 1..MaxCatalog }

DefaultCatalog ==
    << [country |-> <<"x">>, name |-> <<"e_acute">>, symbol |-> 501, id |-> 101],
       [country |-> <<"x">>, name |-> <<"x">>, symbol |-> 502, id |-> 102] >>

\* table rows of a provider response: td0 is the text of the first cell,
\* info the data-real-value attributes (timestamp, close, open, high, low)
NoResultsRow ==
    [td0 |-> NoResultsFound, info |-> << <<>>, <<>>, <<>>, <<>>, <<>> >>]

\* 01/01/2100 00:00:00, timestamp 4102444800
RowA ==
    [td0 |-> "Jan 01, 2100",
     info |-> << <<"4","1","0","2","4","4","4","8","0","0">>,
                 <<"1",",","0","0","5">>, <<"9","9","0">>,
                 <<"1",",","0","1","0">>, <<"9","8","5">> >>]

\* 15/06/2090 01:00:00, timestamp 3801171600
RowB ==
    [td0 |-> "Jun 15, 2090",
     info |-> << <<"3","8","0","1","1","7","1","6","0","0">>,
                 <<"7">>, <<"8">>, <<"9">>, <<"6">> >>]

DataRows == {RowA, RowB}

\* the tables a response can carry: the single no-results row, or data rows,
\* no row twice
RowSeqs ==
    {<<NoResultsRow>>}
    \cup {r \in Strs(DataRows, MaxRows) :
             \A i, j \in 1..Len(r) : i # j => r[i] # r[j]}

\* a response: status code, whether the body is non-empty, the rows of
\* table curr_table (no row: the body holds no such table)
Response(status_code, text, rows) ==
    [status_code |-> status_code, text |-> text, rows |-> rows]

Responses ==
    {Response(500, FALSE, <<>>), Response(404, FALSE, <<>>),
     Response(200, FALSE, <<>>), Response(200, TRUE, <<>>)}
    \cup {Response(200, TRUE, r) : r \in RowSeqs}

HealthyResponse == Response(200, TRUE, <<RowA, RowB>>)

MonthDays == {<<1, 1>>, <<29, 2>>, <<31, 12>>}

FromDates ==
    {DateStr(md[1], md[2], y) :
        md \in MonthDays, y \in FirstYear..(FirstYear + FromYears)}

ToDates ==
    {DateStr(md[1], md[2], y) :
        md \in MonthDays, y \in FirstYear..(FirstYear + ToYears)}

DefaultFrom == DateStr(1, 1, FirstYear)

DefaultTo == DateStr(15, 6, FirstYear + 1)

Args(certificate, country, from_date, to_date, as_json, order, interval) ==
    [certificate |-> certificate, country |-> country,
     from_date |-> from_date, to_date |-> to_date,
     as_json |-> as_json, order |-> order, interval |-> interval]

DefaultArgs ==
    Args(Str(<<"x">>), Str(<<"x">>), DefaultFrom, DefaultTo,
         Bool(FALSE), "ascending", Str("Daily"))

Functions == {"recent", "historical"}

\* the fields and values search_certificates is called with
SearchFields ==
    {[t |-> "none", v |-> ""], [t |-> "int", v |-> ""], Str("")}
    \cup {Str(c) : c \in {"country", "name", "symbol", "isin", "id", "tag",
                          "price"}}

SearchValues ==
    {None, NotStr, Str(<<>>)}
    \cup {Str(v) : v \in {<<"x">>, <<"E">>, <<"e_acute">>, <<"x", "x">>}}

\* date ranges of one, two and three windows
WindowRanges ==
    {[to |-> DateStr(31, 12, FirstYear + 19), n |-> 1],
     [to |-> DateStr(15, 6, FirstYear + 21), n |-> 2],
     [to |-> DateStr(15, 6, FirstYear + 41), n |-> 3]}

(* ------------------------------- state -------------------------------- *)
VARIABLES
    fn,                \* the function called: "recent", "historical", "search"
    args,              \* its arguments
    resource_exists,   \* pkg_resources.resource_exists of certificates.csv
    catalog,           \* the content of certificates.csv
    provider,          \* the provider's responses, one per request, in order
    pc,                \* where the call stands
    start_date,        \* line 449, moved by line 472
    end_date,          \* line 450
    date_interval,     \* date_interval['intervals']
    interval_limit,    \* line 483
    interval_counter,  \* line 484
    data_flag,         \* line 486
    resolved,          \* id_, symbol and name of lines 509-511 (267-269)
    final,             \* line 515
    sent,              \* the requests issued by this call, oldest first
    outcome,           \* what the call returned or raised
    prev               \* the call made before this one, when there is one

vars ==
    <<fn, args, resource_exists, catalog, provider, pc, start_date, end_date, date_interval,
      interval_limit, interval_counter, data_flag, resolved, final, sent,
      outcome, prev>>

NoDateTime == <<0, 0, 0>>

NoRow == [id_ |-> 0, symbol |-> 0, name |-> <<>>]

NoOutcome ==
    [kind |-> "none", err |-> "", status_code |-> 0, name |-> <<>>,
     rows |-> <<>>]

Raised(err) == [NoOutcome EXCEPT !.kind = "error", !.err = err]

(* ------------------------ search_certificates ------------------------- *)
\* the columns of certificates.csv
Columns ==
    <<"country", "name", "full_name", "symbol", "issuer", "isin",
      "asset_class", "underlying", "tag", "id">>

\* lines 655-657: the columns left once tag and id are dropped
available_search_fields ==
    SelectSeq(Columns, LAMBDA c : c \notin {"tag", "id"})

\* line 659: `not by`
NotBy(by) == by.t = "none" \/ (by.t = "str" /\ by.v = "")

InList(x, list) == \E i \in 1..Len(list) : list[i] = x

\* lines 659-673: the error of the arguments, "" when there is none
CheckSearchArguments(by, value) ==
    IF NotBy(by) THEN "ValueError ERR#0006"
    ELSE IF by.t # "str" THEN "ValueError ERR#0006"
    ELSE IF ~InList(by.v, available_search_fields) THEN "ValueError ERR#0026"
    ELSE IF Falsy(value) THEN "ValueError ERR#0017"
    ELSE IF value.t # "str" THEN "ValueError ERR#0017"
    ELSE ""

\* certificates[by] of one row: the text of the cell, the columns the
\* catalog of the model does not carry being blank
Cell(row, by) ==
    IF by = "country" THEN row.country
    ELSE IF by = "name" THEN row.name
    ELSE IF by = "symbol" THEN <<ToString(row.symbol)>>
    ELSE <<>>

\* line 675: str.contains(value, case=False) on one cell
contains(text, value) ==
    \E i \in 0..(Len(text) - Len(value)) :
        SubSeq(lower(text), i + 1, i + Len(value)) = lower(value)

\* lines 655, 682: a row of the result, without the columns tag and id
SearchRow(row) ==
    [country |-> row.country, name |-> row.name, symbol |-> row.symbol]

\* lines 675-685: the rows that match, or the error when there is none
search_result(cat, by, value) ==
    LET hits == SelectSeq(cat, LAMBDA r : contains(Cell(r, by), value))
    IN IF hits = <<>>
         THEN Raised("RuntimeError ERR#0043")
         ELSE [kind |-> "df", err |-> "", status_code |-> 0, name |-> <<>>,
               rows |-> [i \in 1..Len(hits) |-> SearchRow(hits[i])]]

\* the locals of a call before its first statement
FreshCall ==
    /\ pc' = "validate"
    /\ start_date' = NoDateTime
    /\ end_date' = NoDateTime
    /\ date_interval' = <<>>
    /\ interval_limit' = 0
    /\ interval_counter' = 0
    /\ data_flag' = FALSE
    /\ resolved' = NoRow
    /\ final' = <<>>
    /\ sent' = <<>>
    /\ outcome' = NoOutcome

\* the state in which function f is called with arguments a, certificates.csv
\* being there or not with the content cat, and the provider answering with
\* the responses prov
Called(f, a, exists, cat, prov) ==
    /\ fn = f
    /\ args = a
    /\ resource_exists = exists
    /\ catalog = cat
    /\ provider = prov
    /\ pc = IF f = "search" THEN "search" ELSE "validate"
    /\ start_date = NoDateTime
    /\ end_date = NoDateTime
    /\ date_interval = <<>>
    /\ interval_limit = 0
    /\ interval_counter = 0
    /\ data_flag = FALSE
    /\ resolved = NoRow
    /\ final = <<>>
    /\ sent = <<>>
    /\ outcome = NoOutcome
    /\ prev = <<>>

\* a call of a data function with certificates.csv in place
StartCall(f, a, cat, prov) == Called(f, a, TRUE, cat, prov)

\* every pair of dates, the rest of the call fixed
DateCalls ==
    \E f \in FromDates, t \in ToDates :
        StartCall("historical",
                  [DefaultArgs EXCEPT !.from_date = f, !.to_date = t],
                  DefaultCatalog, <<HealthyResponse>>)

\* every catalog, name and country spelling
NameCalls ==
    \E f \in Functions, n \in InputNames, c \in InputCountries,
       cat \in Catalogs :
        StartCall(f,
                  [DefaultArgs EXCEPT !.certificate = Str(n), !.country = Str(c)],
                  cat, <<HealthyResponse>>)

\* every combination of well-typed and ill-typed arguments
ArgumentCalls ==
    \E f \in Functions,
       n \in {None, Str(<<>>), NotStr, Str(<<"x">>)},
       c \in {None, NotStr, Str(<<"x">>)},
       d \in {DefaultFrom, BadDateStr, NoDate},
       t \in {DefaultTo, BadDateStr, NoDate},
       j \in {Bool(TRUE), Bool(FALSE), [t |-> "str", v |-> TRUE]},
       o \in OrderValues \cup {"up"},
       i \in {[t |-> "none", v |-> ""], Str(""), [t |-> "int", v |-> ""],
              Str("Daily"), Str("Weekly"), Str("Monthly"), Str("Yearly")} :
        StartCall(f, Args(n, c, d, t, j, o, i), DefaultCatalog,
                  <<HealthyResponse>>)

\* ranges of one, two and three windows with every script of provider
\* responses of that length, and the recent function with every response
FetchCalls ==
    \E j \in BOOLEAN, o \in {"ascending", "descending"} :
        \/ \E w \in WindowRanges : \E prov \in [1..w.n -> Responses] :
              StartCall("historical",
                        [DefaultArgs EXCEPT !.to_date = w.to,
                                            !.as_json = Bool(j), !.order = o],
                        DefaultCatalog, prov)
        \/ \E r \in Responses :
              StartCall("recent",
                        [DefaultArgs EXCEPT !.as_json = Bool(j), !.order = o],
                        DefaultCatalog, <<r>>)

\* the data functions called while certificates.csv is missing
MissingCatalogCalls ==
    \E f \in Functions, w \in WindowRanges :
        Called(f, [DefaultArgs EXCEPT !.to_date = w.to], FALSE, <<>>,
               <<HealthyResponse>>)

\* search_certificates with every field, value and catalog, the file being
\* there or not
SearchCalls ==
    \E by \in SearchFields, value \in SearchValues :
        \/ \E cat \in Catalogs :
              Called("search", [by |-> by, value |-> value], TRUE, cat, <<>>)
        \/ Called("search", [by |-> by, value |-> value], FALSE, <<>>, <<>>)

Init ==
    \/ DateCalls
    \/ NameCalls
    \/ ArgumentCalls
    \/ FetchCalls
    \/ MissingCatalogCalls
    \/ SearchCalls

\* the response to the i-th request of a call
ResponseTo(i) == provider[IF i <= Len(provider) THEN i ELSE Len(provider)]

(* ------------------------------ actions ------------------------------- *)
\* lines 219-244 and 412-453
Validate ==
    /\ pc = "validate"
    /\ LET e1 == CheckArguments(args)
           e2 == IF e1 = "" /\ fn = "historical" THEN CheckDates(args) ELSE e1
       IN IF e2 # ""
            THEN /\ outcome' = Raised(e2)
                 /\ pc' = "done"
                 /\ UNCHANGED <<start_date, end_date>>
            ELSE IF fn = "historical"
              THEN /\ start_date' = strptime(args.from_date)
                   /\ end_date' = strptime(args.to_date)
                   /\ pc' = "partition"
                   /\ UNCHANGED outcome
              ELSE /\ pc' = "resolve"
                   /\ UNCHANGED <<outcome, start_date, end_date>>
    /\ UNCHANGED <<fn, args, resource_exists, catalog, provider, date_interval, interval_limit,
                   interval_counter, data_flag, resolved, final, sent, prev>>

\* lines 461-486: one turn of the partitioning loop
PartitionStep ==
    /\ pc = "partition"
    /\ IF MoreThanTwentyYears(start_date, end_date)
         THEN IF ValidDate(replace_year(start_date))
                THEN /\ date_interval' =
                          Append(date_interval,
                                 IntervalObj(start_date, replace_year(start_date)))
                     /\ start_date' = NextStart(start_date)
                     /\ UNCHANGED <<pc, outcome, interval_limit>>
                ELSE \* datetime.replace: day is out of range for month
                     /\ outcome' = Raised("ValueError day is out of range")
                     /\ pc' = "done"
                     /\ UNCHANGED <<date_interval, start_date, interval_limit>>
         ELSE /\ date_interval' =
                   Append(date_interval, IntervalObj(start_date, end_date))
              /\ interval_limit' = Len(date_interval) + 1
              /\ pc' = "resolve"
              /\ UNCHANGED <<start_date, outcome>>
    /\ UNCHANGED <<fn, args, resource_exists, catalog, provider, end_date, interval_counter,
                   data_flag, resolved, final, sent, prev>>

\* lines 246-271 and 488-515
Resolve ==
    /\ pc = "resolve"
    /\ LET r == IF resource_exists
                  THEN ResolveCertificate(catalog, args)
                  ELSE CatalogMissing
       IN IF r.err # ""
            THEN /\ outcome' = Raised(r.err)
                 /\ pc' = "done"
                 /\ UNCHANGED resolved
            ELSE /\ resolved' = [id_ |-> catalog[r.row].id,
                                 symbol |-> catalog[r.row].symbol,
                                 name |-> catalog[r.row].name]
                 /\ pc' = "request"
                 /\ UNCHANGED outcome
    /\ UNCHANGED <<fn, args, resource_exists, catalog, provider, start_date, end_date,
                   date_interval, interval_limit, interval_counter, data_flag,
                   final, sent, prev>>

\* lines 517-542: the request of the next window
SendRequest ==
    /\ pc = "request"
    /\ fn = "historical"
    /\ interval_counter' = interval_counter + 1
    /\ sent' = Append(sent,
                      [curr_id |-> resolved.id_,
                       header |-> Header(resolved.symbol),
                       st_date |-> date_interval[interval_counter + 1].start,
                       end_date |-> date_interval[interval_counter + 1].end,
                       interval_sec |-> args.interval.v])
    /\ pc' = "response"
    /\ UNCHANGED <<fn, args, resource_exists, catalog, provider, start_date, end_date,
                   date_interval, interval_limit, data_flag, resolved, final,
                   outcome, prev>>

\* the loop of line 517 written over range(len(...) - 1)
AfterWindowSkipsLast ==
    IF interval_counter + 1 < interval_limit THEN "request" ELSE "return"

\* where the loop of line 517 goes after a window
AfterWindow == IF interval_counter < interval_limit THEN "request" ELSE "return"

\* lines 544-602: the response to the request of one window
ReceiveResponse ==
    /\ pc = "response"
    /\ fn = "historical"
    /\ LET resp == ResponseTo(interval_counter)
           scan == ScanRows(resp.rows, data_flag, <<>>,
                            interval_counter, interval_limit)
       IN IF ~StatusOk(resp.status_code)
            THEN /\ outcome' = [Raised("ConnectionError ERR#0015")
                                  EXCEPT !.status_code = resp.status_code]
                 /\ pc' = "done"
                 /\ UNCHANGED <<data_flag, final>>
          ELSE IF ~resp.text
            THEN /\ pc' = AfterWindow
                 /\ UNCHANGED <<data_flag, final, outcome>>
          ELSE IF resp.rows = <<>>
            THEN /\ outcome' = Raised("RuntimeError ERR#0004")
                 /\ pc' = "done"
                 /\ UNCHANGED <<data_flag, final>>
          ELSE IF scan.err # ""
            THEN /\ outcome' = Raised(scan.err)
                 /\ pc' = "done"
                 /\ UNCHANGED <<data_flag, final>>
          ELSE /\ data_flag' = scan.data_flag
               /\ final' =
                    IF KeepFrame(scan.data_flag)
                      THEN Append(final,
                                  Frame(args.as_json.v, resolved.name,
                                        ApplyOrder(args.order, scan.result)))
                      ELSE final
               /\ pc' = AfterWindow
               /\ UNCHANGED outcome
    /\ UNCHANGED <<fn, args, resource_exists, catalog, provider, start_date, end_date,
                   date_interval, interval_limit, interval_counter, resolved,
                   sent, prev>>

\* the rows of a list of frames, in order
RowsOf(frames) == concat([i \in 1..Len(frames) |-> frames[i].rows])

\* lines 604-607
Return ==
    /\ pc = "return"
    /\ IF args.as_json.v
         THEN IF final = <<>>
                THEN outcome' = Raised("IndexError list index out of range")
                ELSE outcome' = [NoOutcome EXCEPT
                                   !.kind = "json",
                                   !.name = final[1].name,
                                   !.rows = RowsOf(JsonFrames(final))]
         ELSE IF final = <<>>
                THEN outcome' = Raised("ValueError No objects to concatenate")
                ELSE outcome' = [NoOutcome EXCEPT
                                   !.kind = "df",
                                   !.rows = RowsOf(TableFrames(final))]
    /\ pc' = "done"
    /\ UNCHANGED <<fn, args, resource_exists, catalog, provider, start_date, end_date,
                   date_interval, interval_limit, interval_counter, data_flag,
                   resolved, final, sent, prev>>

\* lines 273-293: the one request of the recent function
RecentRequest ==
    /\ pc = "request"
    /\ fn = "recent"
    /\ sent' = Append(sent,
                      [curr_id |-> resolved.id_,
                       header |-> Header(resolved.symbol),
                       st_date |-> <<>>,
                       end_date |-> <<>>,
                       interval_sec |-> args.interval.v])
    /\ pc' = "response"
    /\ UNCHANGED <<fn, args, resource_exists, catalog, provider, start_date, end_date,
                   date_interval, interval_limit, interval_counter, data_flag,
                   resolved, final, outcome, prev>>

\* lines 295-342: the response, up to the return
RecentResponse ==
    /\ pc = "response"
    /\ fn = "recent"
    /\ LET resp == ResponseTo(1)
           scan == ScanRecentRows(resp.rows, <<>>)
           frame == Frame(args.as_json.v, resolved.name,
                          ApplyOrder(args.order, scan.result))
       IN outcome' =
            IF ~StatusOk(resp.status_code)
              THEN [Raised("ConnectionError ERR#0015")
                      EXCEPT !.status_code = resp.status_code]
            ELSE IF ~resp.text
              THEN \* lxml.html.fromstring('')
                   Raised("ParserError Document is empty")
            ELSE IF resp.rows = <<>>
              THEN Raised("RuntimeError ERR#0004")
            ELSE IF scan.err # ""
              THEN Raised(scan.err)
            ELSE [NoOutcome EXCEPT
                    !.kind = IF args.as_json.v THEN "json" ELSE "df",
                    !.name = frame.name,
                    !.rows = frame.rows]
    /\ pc' = "done"
    /\ UNCHANGED <<fn, args, resource_exists, catalog, provider, start_date, end_date,
                   date_interval, interval_limit, interval_counter, data_flag,
                   resolved, final, sent, prev>>

\* trim, lowercase and diacritic stripping of a name
Normal(s) == unidecode(lower(strip(s)))

\* the arguments of a second call that asks for the same data as a: the other
\* output mode, the other order, or another spelling of the name or country
SameRequest(a) ==
    {[a EXCEPT !.as_json = Bool(~a.as_json.v)]}
    \cup {[a EXCEPT !.order = o] : o \in {"ascending", "descending"} \ {a.order}}
    \cup {[a EXCEPT !.certificate = Str(n)] :
            n \in {m \in InputNames :
                     m # a.certificate.v /\ Normal(m) = Normal(a.certificate.v)}}
    \cup {[a EXCEPT !.country = Str(c)] :
            c \in {m \in InputCountries :
                     m # a.country.v
                     /\ unidecode(lower(m)) = unidecode(lower(a.country.v))}}

\* the caller calls the function a second time, against the same catalog and
\* the same provider responses, once a first call that reached the provider
\* is over
SecondCall ==
    /\ pc = "done"
    /\ prev = <<>>
    /\ sent # <<>>
    /\ prev' = <<[args |-> args, outcome |-> outcome, sent |-> sent,
                  resolved |-> resolved, date_interval |-> date_interval]>>
    /\ \E a \in SameRequest(args) : args' = a
    /\ FreshCall
    /\ UNCHANGED <<fn, resource_exists, catalog, provider>>

\* search_certificates, lines 643-685: the catalog is loaded, then the
\* arguments are checked, then the rows are matched
SearchCertificates ==
    /\ pc = "search"
    /\ outcome' =
          IF ~resource_exists THEN Raised("FileNotFoundError ERR#0096")
          ELSE LET err == CheckSearchArguments(args.by, args.value)
               IN IF err # "" THEN Raised(err)
                  ELSE search_result(catalog, args.by.v, args.value.v)
    /\ pc' = "done"
    /\ UNCHANGED <<fn, args, resource_exists, catalog, provider, start_date,
                   end_date, date_interval, interval_limit, interval_counter,
                   data_flag, resolved, final, sent, prev>>

Next ==
    \/ SearchCertificates
    \/ Validate
    \/ PartitionStep
    \/ Resolve
    \/ SendRequest
    \/ ReceiveResponse
    \/ Return
    \/ RecentRequest
    \/ RecentResponse
    \/ SecondCall

Spec == Init /\ [][Next]_vars

(* ------------------------- claims: vocabulary ------------------------- *)
Done == pc = "done"

HasReturned(o) == o.kind \in {"df", "json"}

\* the partitioning loop of this call is over
Partitioned == fn = "historical" /\ interval_limit > 0

\* from_date and to_date as datetimes, read off the arguments
FromDate == <<args.from_date.f[3], args.from_date.f[2], args.from_date.f[1]>>

ToDate == <<args.to_date.f[3], args.to_date.f[2], args.to_date.f[1]>>

\* the date a formatted mm/dd/yyyy triple stands for
OfMdY(t) == <<t[3], t[1], t[2]>>

PlusYears(dt, k) == <<dt[1] + k, dt[2], dt[3]>>

NotAfter(a, b) == a = b \/ DateLess(a, b)

\* the response to request i of this call has been processed
Received(i) == i < interval_counter \/ (i = interval_counter /\ pc # "response")

\* the (date, open, high, low, close) tuples of a returned result, the date
\* of a JSON result parsed back from dd/mm/yyyy
Tuples(o) ==
    [i \in 1..Len(o.rows) |->
        IF o.kind = "json"
          THEN [o.rows[i] EXCEPT !.date = <<@[3], @[2], @[1]>>]
          ELSE o.rows[i]]

(* --------------------------------- C1 --------------------------------- *)
\* C1: two historical calls that differ only in as_json and both return
\* carry the same sequence of (date, open, high, low, close) tuples.
C1_JsonCarriesTheTableTuples ==
    (/\ Done /\ fn = "historical" /\ prev # <<>>
     /\ prev[1].args = [args EXCEPT !.as_json = Bool(~args.as_json.v)]
     /\ HasReturned(outcome) /\ HasReturned(prev[1].outcome))
    => Tuples(outcome) = Tuples(prev[1].outcome)

(* --------------------------------- C2 --------------------------------- *)
\* C2: two historical calls that differ only in the order, one ascending and
\* one descending, return series that are the reverse of each other.
C2_AscendingReversesDescending ==
    (/\ Done /\ fn = "historical" /\ prev # <<>>
     /\ args.order \in {"ascending", "asc"}
     /\ prev[1].args.order \in {"descending", "desc"}
     /\ prev[1].args = [args EXCEPT !.order = prev[1].args.order]
     /\ HasReturned(outcome) /\ HasReturned(prev[1].outcome))
    => outcome.rows = reversed(prev[1].outcome.rows)

(* --------------------------------- C3 --------------------------------- *)
\* C3: two calls whose names are equal after trim, lowercase and diacritic
\* stripping, and whose countries are spellings of one country, resolve to
\* the same catalog row (same id, symbol and display name).
C3_EqualNamesResolveToOneRow ==
    (/\ prev # <<>>
     /\ resolved # NoRow /\ prev[1].resolved # NoRow
     /\ Normal(args.certificate.v) = Normal(prev[1].args.certificate.v)
     /\ unidecode(lower(args.country.v))
          = unidecode(lower(prev[1].args.country.v)))
    => resolved = prev[1].resolved

(* --------------------------------- C4 --------------------------------- *)
\* the N + 1 of a span of N*20 + r years, 0 < r <= 20
ExpectedWindows ==
    CHOOSE n \in 1..10 :
        /\ NotAfter(ToDate, PlusYears(FromDate, 20 * n))
        /\ DateLess(PlusYears(FromDate, 20 * (n - 1)), ToDate)

\* C4: a range of N*20 + r years (r > 0) is cut into N + 1 windows, and no
\* window spans more than 20 years.
C4_WindowCountAndSpan ==
    Partitioned =>
        /\ Len(date_interval) = ExpectedWindows
        /\ \A i \in 1..Len(date_interval) :
              NotAfter(OfMdY(date_interval[i].end),
                       PlusYears(OfMdY(date_interval[i].start), 20))

(* --------------------------------- C5 --------------------------------- *)
\* C5: the windows are contiguous and cover exactly [from_date, to_date]:
\* the first starts at from_date, the last ends at to_date, every window has
\* start < end, and each later window starts where the previous one ended.
C5_WindowsContiguous ==
    Partitioned =>
        /\ date_interval # <<>>
        /\ OfMdY(date_interval[1].start) = FromDate
        /\ OfMdY(date_interval[Len(date_interval)].end) = ToDate
        /\ \A i \in 1..Len(date_interval) :
              DateLess(OfMdY(date_interval[i].start), OfMdY(date_interval[i].end))
        /\ \A i \in 1..(Len(date_interval) - 1) :
              date_interval[i + 1].start = date_interval[i].end

\* a range cut into three windows
C5_Witness == Partitioned /\ pc = "resolve" /\ Len(date_interval) = 3

(* --------------------------------- C6 --------------------------------- *)
\* to_date is at most 20 years after from_date
AtMostTwentyYears == NotAfter(ToDate, PlusYears(FromDate, 20))

\* C6: a range of at most 20 years makes exactly one window, [from_date,
\* to_date], and a call that reaches the provider issues exactly one request,
\* whose st_date and end_date are the two dates as mm/dd/yyyy.
C6_OneWindowOneRequest ==
    (Partitioned /\ AtMostTwentyYears) =>
        /\ date_interval =
             << [start |-> <<FromDate[2], FromDate[3], FromDate[1]>>,
                 end |-> <<ToDate[2], ToDate[3], ToDate[1]>>] >>
        /\ Len(sent) <= 1
        /\ (pc \in {"response", "return"} \/ (Done /\ resolved # NoRow))
              => /\ Len(sent) = 1
                 /\ sent[1].st_date = <<FromDate[2], FromDate[3], FromDate[1]>>
                 /\ sent[1].end_date = <<ToDate[2], ToDate[3], ToDate[1]>>

\* a call over exactly 20 years that returned
C6_Witness ==
    /\ Partitioned /\ Done /\ HasReturned(outcome)
    /\ ToDate = PlusYears(FromDate, 20)
    /\ Len(sent) = 1

(* --------------------------------- C7 --------------------------------- *)
\* C7: once a window's request was answered with a status other than 200,
\* the call is over with the ConnectionError that carries that status, it
\* returns no series, and no request for a later window was issued.
C7_HttpErrorAbortsTheCall ==
    fn = "historical" =>
        \A i \in 1..Len(sent) :
            (Received(i) /\ ResponseTo(i).status_code # 200) =>
                /\ Done
                /\ outcome.kind = "error"
                /\ outcome.err = "ConnectionError ERR#0015"
                /\ outcome.status_code = ResponseTo(i).status_code
                /\ outcome.rows = <<>>
                /\ Len(sent) = i

\* the second of three windows fails after the first delivered data
C7_Witness ==
    /\ fn = "historical" /\ Done /\ interval_limit = 3 /\ Len(sent) = 2
    /\ final # <<>>
    /\ ResponseTo(2).status_code = 404
    /\ outcome.err = "ConnectionError ERR#0015"

(* --------------------------------- C8 --------------------------------- *)
\* the response being processed is the single row 'No results found'
NoResultsResponse ==
    /\ fn = "historical" /\ pc = "response"
    /\ ResponseTo(interval_counter) = Response(200, TRUE, <<NoResultsRow>>)

\* C8: a 'No results found' response adds nothing and lets the loop go on to
\* the next request when its window is not the last one, and ends the call
\* with IndexError ERR#0102 when its window is the last one.
C8_NoResultsSkippedUnlessLast ==
    [][NoResultsResponse =>
         IF Len(sent) < Len(date_interval)
           THEN final' = final /\ outcome' = outcome /\ pc' = "request"
           ELSE /\ pc' = "done"
                /\ outcome' = Raised("IndexError ERR#0102")]_vars

\* data, then a skipped window, then no results in the last window
C8_Witness ==
    /\ fn = "historical" /\ Done /\ Len(sent) = 3 /\ Len(final) = 1
    /\ ResponseTo(2) = Response(200, TRUE, <<NoResultsRow>>)
    /\ ResponseTo(3) = Response(200, TRUE, <<NoResultsRow>>)
    /\ outcome = Raised("IndexError ERR#0102")

(* --------------------------------- C9 --------------------------------- *)
\* every window was answered 200, some body was empty, every other body
\* held a table, and the last window did not answer 'No results found'
OnlyEmptyBodiesMissing ==
    /\ fn = "historical" /\ Done /\ sent # <<>>
    /\ Len(sent) = Len(date_interval)
    /\ \A i \in 1..Len(sent) :
          /\ ResponseTo(i).status_code = 200
          /\ ResponseTo(i).text => ResponseTo(i).rows # <<>>
    /\ \E i \in 1..Len(sent) : ~ResponseTo(i).text
    /\ ResponseTo(Len(sent)).rows # <<NoResultsRow>>

\* C9: an empty body only skips its window: such a call does not raise.
C9_EmptyBodyIsNeverFatal ==
    OnlyEmptyBodiesMissing => outcome.kind # "error"

(* --------------------------------- C10 -------------------------------- *)
ValidationErrors ==
    {"ValueError ERR#0100", "ValueError ERR#0039", "ValueError ERR#0025",
     "ValueError ERR#0002", "ValueError ERR#0003", "ValueError ERR#0073",
     "ValueError ERR#0011", "ValueError ERR#0012", "ValueError ERR#0032",
     "TypeError"}

\* the arguments of the call are not valid
InvalidCall ==
    /\ fn \in Functions
    /\ \/ args.certificate.t # "str" \/ args.certificate.v = <<>>
       \/ args.country.t # "str"
       \/ args.as_json.t # "bool"
       \/ args.order \notin {"ascending", "asc", "descending", "desc"}
       \/ args.interval.t # "str"
       \/ args.interval.v \notin {"Daily", "Weekly", "Monthly"}
       \/ /\ fn = "historical"
          /\ \/ args.from_date.t # "str" \/ ~args.from_date.pattern
             \/ args.to_date.t # "str" \/ ~args.to_date.pattern
             \/ ~ValidDate(FromDate) \/ ~ValidDate(ToDate)
             \/ ~DateLess(FromDate, ToDate)

\* C10: a call with an invalid argument issues no request, and a call that
\* ended with a validation error has issued none.
C10_ValidationBeforeRequests ==
    /\ InvalidCall => sent = <<>>
    /\ (Done /\ InvalidCall) => outcome.err \in ValidationErrors
    /\ outcome.err \in ValidationErrors => sent = <<>>

\* from_date is not before to_date, every other argument is valid
C10_Witness ==
    /\ fn = "historical" /\ Done /\ sent = <<>>
    /\ outcome = Raised("ValueError ERR#0032")

(* --------------------------------- C11 -------------------------------- *)
\* the dates of the data rows of a response, in row order
ResponseDates(resp) ==
    LET rows == SelectSeq(resp.rows, LAMBDA r : r.td0 # NoResultsFound)
    IN [k \in 1..Len(rows) |-> Data(rows[k].info).date]

NoDuplicate(dates) ==
    \A i, j \in 1..Len(dates) : i # j => dates[i] # dates[j]

\* every response of this call holds each date at most once, and only dates
\* of the inclusive range [st_date, end_date] of its request
ResponsesWithinWindows ==
    \A i \in 1..Len(sent) :
        LET dates == ResponseDates(ResponseTo(i))
        IN /\ NoDuplicate(dates)
           /\ \A k \in 1..Len(dates) :
                 /\ NotAfter(OfMdY(sent[i].st_date), dates[k])
                 /\ NotAfter(dates[k], OfMdY(sent[i].end_date))

\* C11: the dates of the series a multi-window call returns are unique when
\* each response holds each date once and only dates of its own window.
C11_DatesUnique ==
    (/\ fn = "historical" /\ Done /\ HasReturned(outcome)
     /\ Len(date_interval) >= 2
     /\ ResponsesWithinWindows)
    => NoDuplicate([i \in 1..Len(outcome.rows) |-> Tuples(outcome)[i].date])

(* --------------------------------- C12 -------------------------------- *)
\* C12: a historical call issues its requests one at a time and in window
\* order: a request is issued only when every earlier response has been
\* processed, it carries the start and end of the next window, and when the
\* loop is over exactly one request per window has been issued.
C12_OneRequestPerWindowInOrder ==
    [][fn = "historical" =>
         /\ (sent' # sent /\ sent' # <<>>) =>
               /\ \A i \in 1..Len(sent) : Received(i)
               /\ Len(sent') = Len(sent) + 1
               /\ SubSeq(sent', 1, Len(sent)) = sent
               /\ sent'[Len(sent')].st_date = date_interval[Len(sent')].start
               /\ sent'[Len(sent')].end_date = date_interval[Len(sent')].end
         /\ (pc' = "return" /\ pc # "return") =>
               Len(sent') = Len(date_interval')]_vars

\* a call over three windows that returned
C12_Witness ==
    /\ fn = "historical" /\ Done /\ HasReturned(outcome)
    /\ Len(date_interval) = 3 /\ Len(sent) = 3

(* --------------------------------- C14 -------------------------------- *)
\* C14: for valid dates with to_date > from_date the partitioning loop ends
\* without an error and leaves at least one window.
C14_PartitionFinishes ==
    (fn = "historical" /\ ~InvalidCall /\ pc \notin {"validate", "partition"})
    => /\ outcome.err # "ValueError day is out of range"
       /\ interval_limit >= 1
       /\ Len(date_interval) = interval_limit

(* --------------------------------- C15 -------------------------------- *)
\* C15: every request carries the id and symbol of a catalog row of the
\* requested country whose name, lowercased and without diacritics, is the
\* normalized input name, and the result name is the name of that row.
C15_RequestsNameTheInstrument ==
    \A i \in 1..Len(sent) :
        \E k \in 1..Len(catalog) :
            /\ catalog[k].country = unidecode(lower(args.country.v))
            /\ unidecode(lower(catalog[k].name)) = Normal(args.certificate.v)
            /\ sent[i].curr_id = catalog[k].id
            /\ sent[i].header = <<catalog[k].symbol, " Historical Data">>
            /\ resolved.name = catalog[k].name

(* --------------------------------- C16 -------------------------------- *)
\* no response of this call carried a data row
NoWindowContributed ==
    \A i \in 1..Len(sent) : ResponseDates(ResponseTo(i)) = <<>>

\* C16: a historical call that returns returns at least one price point, and
\* a call whose windows delivered no data row at all ends in an error.
C16_NeverAnEmptySeries ==
    (fn = "historical" /\ Done) =>
        /\ HasReturned(outcome) => outcome.rows # <<>>
        /\ (sent # <<>> /\ NoWindowContributed) => outcome.kind = "error"

\* 'No results found' in the first window, an empty body in the last one
C16_Witness ==
    /\ fn = "historical" /\ Done /\ Len(sent) = 2 /\ Len(date_interval) = 2
    /\ ResponseTo(1) = Response(200, TRUE, <<NoResultsRow>>)
    /\ ResponseTo(2) = Response(200, FALSE, <<>>)
    /\ outcome.kind = "error"

(* --------------------------------- C13 -------------------------------- *)
\* the fields search_certificates allows
AllowedFields ==
    {"country", "name", "full_name", "symbol", "issuer", "isin",
     "asset_class", "underlying"}

SearchArgumentErrors ==
    {"ValueError ERR#0006", "ValueError ERR#0026", "ValueError ERR#0017"}

\* the value is empty, or the field is a str outside the allowed set
InvalidSearch ==
    /\ fn = "search"
    /\ \/ args.value = Str(<<>>)
       \/ args.by.t = "str" /\ args.by.v \notin AllowedFields

\* C13: search_certificates with an empty value or a field outside the
\* allowed set (id and tag included) ends with its argument error, whether
\* certificates.csv is there or not and whatever it holds.
C13_SearchArgumentsCheckedFirst ==
    (InvalidSearch /\ Done) => outcome.err \in SearchArgumentErrors

====
